---- MODULE Spec2Model ----
(***************************************************************************)
(* Order lifecycle of the oliveit-stack backend: the Mongoose Order        *)
(* aggregate, the vendor / customer / delivery controllers that read an    *)
(* order with findOne, mutate the in-memory document and persist it with   *)
(* save(), and the Socket.IO events the controllers emit.                  *)
(*                                                                         *)
(* Every controller is an async function: the await on findOne and the     *)
(* await on save() are two separate steps of the event loop, so handlers   *)
(* of different requests interleave between them.  save() of a loaded      *)
(* document sends only the modified paths ($set) and the pushed array      *)
(* elements ($push) filtered by _id alone; the schema enables no           *)
(* optimistic concurrency.                                                 *)
(***************************************************************************)
EXTENDS Integers, Sequences, FiniteSets, TLC

\* ---------------------------------------------------------------- constants
PENDING          == "pending"
ACCEPTED         == "accepted"
REJECTED         == "rejected"
PREPARING        == "preparing"
READY_FOR_PICKUP == "ready_for_pickup"
PICKED_UP        == "picked_up"
IN_TRANSIT       == "in_transit"
DELIVERED        == "delivered"
CANCELLED        == "cancelled"
CONFIRMED        == "confirmed"
DELIVERY_FAILED  == "delivery_failed"

ORDER_STATUS ==
  { PENDING, ACCEPTED, REJECTED, PREPARING, READY_FOR_PICKUP, PICKED_UP,
    IN_TRANSIT, DELIVERED, CANCELLED, CONFIRMED, DELIVERY_FAILED }

\* ------------------------------------------------------------------- bounds
\* Requests for an order are accepted while its statusHistory is shorter
\* than this (an order delivered without any race holds 13 entries).
MaxHist == 12

\* The clock stops at MaxTime.
MaxTime == 600

\* Delivery addresses lie up to MaxAddress hundred metres north of the
\* equator.
MaxAddress == 80

\* The users of the model: the ordering party, the order's vendor, another
\* vendor, and two couriers.
Customers == { "c1" }
Vendors   == { "v1", "v2" }
Couriers  == { "d1", "d2" }
Users     == Customers \cup Vendors \cup Couriers

\* An administrator, who takes no part in the order lifecycle.
Admins == { "a1" }

\* The one order id the store can hold, a well-formed id that is never
\* stored, and a string that is not an ObjectId.
OrderIds    == { "o1" }
UnknownId   == "o404"
MalformedId == "bad"
RequestIds  == OrderIds \cup { UnknownId, MalformedId }

\* Request handlers that can be in flight at the same time.
Slots == { "r1", "r2" }

Null    == "null"
NoOrder == [ status |-> "none" ]
NoSnap  == [ status |-> "none", deliveryAgent |-> Null ]
NoResp  == [ code |-> 0, message |-> "" ]   \* no error: the handler goes on

\* ----------------------------------------------------------------- geometry
\* Coordinates are [longitude, latitude].  Every location of the model lies
\* on the meridian LNG, and a latitude counts metres of arc from the equator,
\* so that the great-circle distance of two locations is the difference of
\* their latitudes, in metres.
LNG == 77

Point(lat) == << LNG, lat >>

NoPoint == << >>     \* no coordinates

CourierPoints == { Point(2000), Point(9000) }

\* The users collection holds, for every user, the stored location and, for
\* a vendor, the store's delivery radius (0: not set), pin code and status.
UserDoc(loc, radius, pin, st) ==
  [ location |-> loc, deliveryRadiusKm |-> radius, pinCode |-> pin,
    status |-> st ]

DefaultUsers ==
  [ u \in Users |->
      IF u = "v1" THEN UserDoc(Point(3000), 0, "560001", "active")
      ELSE IF u = "v2" THEN UserDoc(Point(7000), 0, "560002", "active")
      ELSE UserDoc(Point(2000), 0, "", "active") ]

\* The order of enumeration of find() on the two collections.
OrderSeq  == << "o1", "o2", "o3" >>
VendorSeq == << "v1", "v2" >>

\* ------------------------------------------------------------------- cache
\* The Redis keys of the model and the value of a key that is not set.
Key(prefix, id) == << prefix, id >>

Keys ==
  { Key("delivery_location", d) : d \in Couriers } \cup
  { Key("delivery_location_history", d) : d \in Couriers } \cup
  { Key("order_delivery_location", o) : o \in OrderIds } \cup
  { Key("customer_location", c) : c \in Customers }

Absent == [ expiresAt |-> 0 ]

NoRes == [ op |-> "none", code |-> 0 ]

VARIABLES
  orders,     \* the orders collection: id -> document, NoOrder when absent
  req,        \* the request handler awaiting save() in each slot
  published,  \* the events emitted to Socket.IO rooms so far
  users,      \* the users collection: the stored location of couriers, vendors
  rejections, \* the DeliveryJobRejection collection
  cache,      \* the Redis keys: key -> entry, Absent when not set or expired
  now,        \* the clock, in seconds
  res,        \* the answer of the last query handler
  sockets     \* the Socket.IO connections: identity, rooms, received events

vars == << orders, req, published, users, rejections, cache, now, res, sockets >>

\* What the handlers of the order lifecycle leave alone.
dispatchVars == << users, rejections, cache, now, res, sockets >>

\* ------------------------------------------------------------------ helpers
role(u) ==
  IF u \in Customers THEN "customer"
  ELSE IF u \in Vendors THEN "vendor"
  ELSE IF u \in Admins THEN "admin"
  ELSE "delivery"

Resp(c, m) == [ code |-> c, message |-> m ]

Entry(s, by, n) == [ status |-> s, updatedBy |-> by, notes |-> n ]

Event(room, name, oid) == [ room |-> room, event |-> name, orderId |-> oid ]

\* An event as a socket receives it.
Received(name, payload) == [ event |-> name, payload |-> payload ]

\* io.to(room).emit(name, payload): every socket in the room receives it.
\* Of the events a socket receives the model keeps the latest.
emit(sk, room, name, payload) ==
  [ s \in DOMAIN sk |->
      IF room \in sk[s].rooms
        THEN [ sk[s] EXCEPT !.received = Received(name, payload) ]
        ELSE sk[s] ]

IdleReq ==
  [ pc |-> "idle", op |-> "none", user |-> Null, oid |-> Null, snap |-> NoSnap ]

Free(p) == req[p].pc = "idle"

Stored(oid) == oid \in DOMAIN orders /\ orders[oid] # NoOrder

\* authorize(roles): the route's role middleware.
authorize(u, r) ==
  IF role(u) # r
    THEN Resp(403, "Access denied. Insufficient permissions")
    ELSE NoResp

\* handleApiError: findOne with a string that is no ObjectId throws a
\* CastError, which falls through to the default branch.
handleApiError == Resp(500, "Cast to ObjectId failed")

\* sendError: the handler answers the client with the error r and ends.
sendError(p, r) ==
  /\ r.code >= 400
  /\ req' = [ req EXCEPT ![p] = IdleReq ]

\* sendSuccess: the handler answers the client with success and ends.
sendSuccess(p, c, m) ==
  /\ c < 400
  /\ req' = [ req EXCEPT ![p] = IdleReq ]

\* The first half of a handler: it answers with the error r, or (r = NoResp)
\* holds the document findOne returned and awaits save().
Begin(p, op, u, oid, r) ==
  /\ Free(p)
  /\ Stored(oid) => Len(orders[oid].statusHistory) < MaxHist
  /\ UNCHANGED << orders, published >>
  /\ UNCHANGED dispatchVars
  /\ IF r # NoResp
       THEN sendError(p, r)
       ELSE req' = [ req EXCEPT ![p] =
              [ pc |-> "saving", op |-> op, user |-> u, oid |-> oid,
                snap |-> [ status |-> orders[oid].status,
                           deliveryAgent |-> orders[oid].deliveryAgent ] ] ]

Saving(p, op, u, oid) ==
  /\ req[p].pc = "saving" /\ req[p].op = op
  /\ req[p].user = u /\ req[p].oid = oid

\* The pre-save hook: one more entry when the status path is modified,
\* attributed to the customer because the document has no updatedBy path.
preSave(o, snap, newStatus) ==
  IF newStatus # snap.status
    THEN << Entry(newStatus, o.customer, "") >>
    ELSE << >>

\* order.save() of a loaded document whose status was set to newStatus (or
\* left alone) and whose deliveryAgent was set to newAgent (or left alone),
\* with the entries the controller pushed: $set of the modified paths and
\* $push of the new entries, applied to the stored document.
save(o, snap, newStatus, newAgent, pushed) ==
  [ o EXCEPT
      !.status        = IF newStatus # snap.status THEN newStatus ELSE @,
      !.deliveryAgent = IF newAgent # snap.deliveryAgent THEN newAgent ELSE @,
      !.statusHistory = @ \o pushed \o preSave(o, snap, newStatus) ]

Init ==
  /\ orders = [ o \in OrderIds |-> NoOrder ]
  /\ req = [ p \in Slots |-> IdleReq ]
  /\ published = {}
  /\ users = DefaultUsers
  /\ rejections = {}
  /\ cache = [ k \in Keys |-> Absent ]
  /\ now = 0
  /\ res = NoRes
  /\ sockets = << >>

\* ------------------------------------------------------- customerController
\* createOrder: a new document in PENDING with one history entry; the
\* pre-save hook sees the status path of a new document as modified.
createOrder(p, u) ==
  /\ Free(p)
  /\ UNCHANGED published
  /\ UNCHANGED dispatchVars
  /\ IF authorize(u, "customer") # NoResp
       THEN /\ sendError(p, authorize(u, "customer"))
            /\ UNCHANGED orders
       ELSE \E oid \in OrderIds :
              /\ orders[oid] = NoOrder
              /\ orders' = [ orders EXCEPT ![oid] =
                   [ customer |-> u, vendor |-> "v1", status |-> PENDING,
                     deliveryAgent |-> Null,
                     statusHistory |->
                       << Entry(PENDING, u, "") >> \o << Entry(PENDING, u, "") >>,
                     deliveryIssues |-> 0 ] ]
              /\ sendSuccess(p, 201, "Order created successfully")

\* cancelOrder: findOne by id and customer, cancel from PENDING or ACCEPTED.
cancelOrder_find(u, oid) ==
  IF authorize(u, "customer") # NoResp THEN authorize(u, "customer")
  ELSE IF oid = MalformedId THEN handleApiError
  ELSE IF ~Stored(oid) \/ orders[oid].customer # u
    THEN Resp(404, "Order not found")
  ELSE IF orders[oid].status \notin { PENDING, ACCEPTED }
    THEN Resp(400, "Cannot cancel order in this status")
  ELSE NoResp

cancelOrder(p, u, oid) ==
  \/ Begin(p, "cancelOrder", u, oid, cancelOrder_find(u, oid))
  \/ /\ Saving(p, "cancelOrder", u, oid)
     /\ orders' = [ orders EXCEPT ![oid] =
          save(@, req[p].snap, CANCELLED, req[p].snap.deliveryAgent,
               << Entry(CANCELLED, u, "Cancelled by customer") >>) ]
     /\ sendSuccess(p, 200, "Order cancelled successfully")
     /\ UNCHANGED published
     /\ UNCHANGED dispatchVars

\* --------------------------------------------------------- vendorController
\* acceptOrder: findOne by id and vendor, accept from PENDING.
vendor_acceptOrder_find(u, oid) ==
  IF authorize(u, "vendor") # NoResp THEN authorize(u, "vendor")
  ELSE IF oid = MalformedId THEN handleApiError
  ELSE IF ~Stored(oid) \/ orders[oid].vendor # u
    THEN Resp(404, "Order not found")
  ELSE IF orders[oid].status # PENDING
    THEN Resp(400, "Cannot accept order in this status")
  ELSE NoResp

vendor_acceptOrder(p, u, oid) ==
  \/ Begin(p, "vendor.acceptOrder", u, oid, vendor_acceptOrder_find(u, oid))
  \/ /\ Saving(p, "vendor.acceptOrder", u, oid)
     /\ orders' = [ orders EXCEPT ![oid] =
          save(@, req[p].snap, ACCEPTED, req[p].snap.deliveryAgent,
               << Entry(ACCEPTED, u, "Accepted by vendor") >>) ]
     /\ sendSuccess(p, 200, "Order accepted successfully")
     /\ UNCHANGED published
     /\ UNCHANGED dispatchVars

\* rejectOrder: findOne by id and vendor, reject from PENDING.  The request
\* body carries the reason the handler requires.
rejectOrder_find(u, oid) ==
  IF authorize(u, "vendor") # NoResp THEN authorize(u, "vendor")
  ELSE IF oid = MalformedId THEN handleApiError
  ELSE IF ~Stored(oid) \/ orders[oid].vendor # u
    THEN Resp(404, "Order not found")
  ELSE IF orders[oid].status # PENDING
    THEN Resp(400, "Cannot reject order in this status")
  ELSE NoResp

rejectOrder(p, u, oid) ==
  \/ Begin(p, "rejectOrder", u, oid, rejectOrder_find(u, oid))
  \/ /\ Saving(p, "rejectOrder", u, oid)
     /\ orders' = [ orders EXCEPT ![oid] =
          save(@, req[p].snap, REJECTED, req[p].snap.deliveryAgent,
               << Entry(REJECTED, u, "Rejected by vendor") >>) ]
     /\ sendSuccess(p, 200, "Order rejected successfully")
     /\ UNCHANGED published
     /\ UNCHANGED dispatchVars

\* orderReadyForPickup: findOne by id and vendor, from ACCEPTED or PREPARING.
orderReadyForPickup_find(u, oid) ==
  IF authorize(u, "vendor") # NoResp THEN authorize(u, "vendor")
  ELSE IF oid = MalformedId THEN handleApiError
  ELSE IF ~Stored(oid) \/ orders[oid].vendor # u
    THEN Resp(404, "Order not found")
  ELSE IF orders[oid].status # ACCEPTED /\ orders[oid].status # PREPARING
    THEN Resp(400, "Cannot mark order as ready in this status")
  ELSE NoResp

orderReadyForPickup(p, u, oid) ==
  \/ Begin(p, "orderReadyForPickup", u, oid, orderReadyForPickup_find(u, oid))
  \/ /\ Saving(p, "orderReadyForPickup", u, oid)
     /\ orders' = [ orders EXCEPT ![oid] =
          save(@, req[p].snap, READY_FOR_PICKUP, req[p].snap.deliveryAgent,
               << Entry(READY_FOR_PICKUP, u, "Order is ready for pickup") >>) ]
     /\ sendSuccess(p, 200, "Order marked as ready for pickup")
     /\ UNCHANGED published
     /\ UNCHANGED dispatchVars

\* ------------------------------------------------------- deliveryController
\* acceptOrder: findOne by id, READY_FOR_PICKUP and deliveryAgent null; sets
\* deliveryAgent and pushes an entry with the unchanged status.
\* delivery_acceptOrder_find refusing an order that a courier rejected.
delivery_acceptOrder_find_blocked(u, oid) ==
  IF authorize(u, "delivery") # NoResp THEN authorize(u, "delivery")
  ELSE IF oid = MalformedId THEN handleApiError
  ELSE IF \/ ~Stored(oid)
          \/ orders[oid].status # READY_FOR_PICKUP
          \/ orders[oid].deliveryAgent # Null
          \/ \E r \in rejections : r.order = oid
    THEN Resp(404, "Order not found or already assigned")
  ELSE NoResp

delivery_acceptOrder_find(u, oid) ==
  IF authorize(u, "delivery") # NoResp THEN authorize(u, "delivery")
  ELSE IF oid = MalformedId THEN handleApiError
  ELSE IF \/ ~Stored(oid)
          \/ orders[oid].status # READY_FOR_PICKUP
          \/ orders[oid].deliveryAgent # Null
    THEN Resp(404, "Order not found or already assigned")
  ELSE NoResp

delivery_acceptOrder(p, u, oid) ==
  \/ Begin(p, "delivery.acceptOrder", u, oid, delivery_acceptOrder_find(u, oid))
  \/ /\ Saving(p, "delivery.acceptOrder", u, oid)
     /\ orders' = [ orders EXCEPT ![oid] =
          save(@, req[p].snap, req[p].snap.status, u,
               << Entry(req[p].snap.status, u, "Delivery agent assigned") >>) ]
     /\ sendSuccess(p, 200, "Order accepted for delivery")
     /\ UNCHANGED published
     /\ UNCHANGED dispatchVars

\* pickupOrder: findOne by id, deliveryAgent and READY_FOR_PICKUP.
pickupOrder_find(u, oid) ==
  IF authorize(u, "delivery") # NoResp THEN authorize(u, "delivery")
  ELSE IF oid = MalformedId THEN handleApiError
  ELSE IF \/ ~Stored(oid)
          \/ orders[oid].deliveryAgent # u
          \/ orders[oid].status # READY_FOR_PICKUP
    THEN Resp(404, "Order not found or not in ready for pickup status")
  ELSE NoResp

pickupOrder(p, u, oid) ==
  \/ Begin(p, "pickupOrder", u, oid, pickupOrder_find(u, oid))
  \/ /\ Saving(p, "pickupOrder", u, oid)
     /\ orders' = [ orders EXCEPT ![oid] =
          save(@, req[p].snap, PICKED_UP, req[p].snap.deliveryAgent,
               << Entry(PICKED_UP, u, "Order picked up by delivery agent") >>) ]
     /\ sendSuccess(p, 200, "Order marked as picked up")
     /\ UNCHANGED published
     /\ UNCHANGED dispatchVars

\* startDelivery: findOne by id, deliveryAgent and PICKED_UP.
startDelivery_find(u, oid) ==
  IF authorize(u, "delivery") # NoResp THEN authorize(u, "delivery")
  ELSE IF oid = MalformedId THEN handleApiError
  ELSE IF \/ ~Stored(oid)
          \/ orders[oid].deliveryAgent # u
          \/ orders[oid].status # PICKED_UP
    THEN Resp(404, "Order not found or not in picked up status")
  ELSE NoResp

startDelivery(p, u, oid) ==
  \/ Begin(p, "startDelivery", u, oid, startDelivery_find(u, oid))
  \/ /\ Saving(p, "startDelivery", u, oid)
     /\ orders' = [ orders EXCEPT ![oid] =
          save(@, req[p].snap, IN_TRANSIT, req[p].snap.deliveryAgent,
               << Entry(IN_TRANSIT, u, "Delivery started") >>) ]
     /\ sendSuccess(p, 200, "Delivery started")
     /\ UNCHANGED published
     /\ UNCHANGED dispatchVars

\* completeDelivery: findOne by id, deliveryAgent and PICKED_UP or IN_TRANSIT.
completeDelivery_find(u, oid) ==
  IF authorize(u, "delivery") # NoResp THEN authorize(u, "delivery")
  ELSE IF oid = MalformedId THEN handleApiError
  ELSE IF \/ ~Stored(oid)
          \/ orders[oid].deliveryAgent # u
          \/ orders[oid].status \notin { PICKED_UP, IN_TRANSIT }
    THEN Resp(404, "Order not found or not in valid status for delivery")
  ELSE NoResp

completeDelivery(p, u, oid) ==
  \/ Begin(p, "completeDelivery", u, oid, completeDelivery_find(u, oid))
  \/ /\ Saving(p, "completeDelivery", u, oid)
     /\ orders' = [ orders EXCEPT ![oid] =
          save(@, req[p].snap, DELIVERED, req[p].snap.deliveryAgent,
               << Entry(DELIVERED, u, "Order delivered successfully") >>) ]
     /\ sendSuccess(p, 200, "Order delivered successfully")
     /\ UNCHANGED published
     /\ UNCHANGED dispatchVars

\* reportDeliveryIssue: findOne by id and deliveryAgent, in any status; pushes
\* an issue and an entry with the unchanged status, then notifies the
\* customer's room and the admin channel.  The body carries the issue type
\* and description the handler requires.
reportDeliveryIssue_find(u, oid) ==
  IF authorize(u, "delivery") # NoResp THEN authorize(u, "delivery")
  ELSE IF oid = MalformedId THEN handleApiError
  ELSE IF ~Stored(oid) \/ orders[oid].deliveryAgent # u
    THEN Resp(404, "Order not found or not assigned to this delivery agent")
  ELSE NoResp

reportDeliveryIssue(p, u, oid) ==
  \/ Begin(p, "reportDeliveryIssue", u, oid, reportDeliveryIssue_find(u, oid))
  \/ /\ Saving(p, "reportDeliveryIssue", u, oid)
     /\ orders' = [ orders EXCEPT ![oid] =
          [ save(@, req[p].snap, req[p].snap.status, req[p].snap.deliveryAgent,
                 << Entry(req[p].snap.status, u, "Delivery issue reported") >>)
            EXCEPT !.deliveryIssues = @ + 1 ] ]
     /\ published' = published \cup
          { Event(<< "customer", orders[oid].customer >>,
                  "delivery-issue-reported", oid),
            Event(<< "admin-channel" >>, "delivery-issue-reported", oid) }
     /\ sockets' =
          emit(emit(sockets, << "customer", orders[oid].customer >>,
                    "delivery-issue-reported", [ orderId |-> oid ]),
               << "admin-channel" >>,
               "delivery-issue-reported", [ orderId |-> oid, deliveryAgentId |-> u ])
     /\ sendSuccess(p, 200, "Delivery issue reported successfully")
     /\ UNCHANGED << users, rejections, cache, now, res >>

\* updateETA: findOne by id, deliveryAgent and PICKED_UP or IN_TRANSIT; pushes
\* an entry with the unchanged status, then notifies the order's room.  The
\* body carries the minutes the handler requires.
updateETA_find(u, oid) ==
  IF authorize(u, "delivery") # NoResp THEN authorize(u, "delivery")
  ELSE IF oid = MalformedId THEN handleApiError
  ELSE IF \/ ~Stored(oid)
          \/ orders[oid].deliveryAgent # u
          \/ orders[oid].status \notin { PICKED_UP, IN_TRANSIT }
    THEN Resp(404, "Order not found or not in active delivery status")
  ELSE NoResp

updateETA(p, u, oid) ==
  \/ Begin(p, "updateETA", u, oid, updateETA_find(u, oid))
  \/ /\ Saving(p, "updateETA", u, oid)
     /\ orders' = [ orders EXCEPT ![oid] =
          save(@, req[p].snap, req[p].snap.status, req[p].snap.deliveryAgent,
               << Entry(req[p].snap.status, u, "Updated ETA") >>) ]
     /\ published' = published \cup
          { Event(<< "order", oid >>, "delivery-eta-updated", oid) }
     /\ sockets' = emit(sockets, << "order", oid >>, "delivery-eta-updated",
                        [ orderId |-> oid ])
     /\ sendSuccess(p, 200, "Estimated delivery time updated successfully")
     /\ UNCHANGED << users, rejections, cache, now, res >>

Next ==
  \/ \E p \in Slots, u \in Users : createOrder(p, u)
  \/ \E p \in Slots, u \in Users, oid \in RequestIds : cancelOrder(p, u, oid)
  \/ \E p \in Slots, u \in Users, oid \in RequestIds : vendor_acceptOrder(p, u, oid)
  \/ \E p \in Slots, u \in Users, oid \in RequestIds : rejectOrder(p, u, oid)
  \/ \E p \in Slots, u \in Users, oid \in RequestIds : orderReadyForPickup(p, u, oid)
  \/ \E p \in Slots, u \in Users, oid \in RequestIds : delivery_acceptOrder(p, u, oid)
  \/ \E p \in Slots, u \in Users, oid \in RequestIds : pickupOrder(p, u, oid)
  \/ \E p \in Slots, u \in Users, oid \in RequestIds : startDelivery(p, u, oid)
  \/ \E p \in Slots, u \in Users, oid \in RequestIds : completeDelivery(p, u, oid)
  \/ \E p \in Slots, u \in Users, oid \in RequestIds : reportDeliveryIssue(p, u, oid)
  \/ \E p \in Slots, u \in Users, oid \in RequestIds : updateETA(p, u, oid)

Spec == Init /\ [][Next]_vars


\* ================================================================ dispatch
Abs(x) == IF x < 0 THEN -x ELSE x

\* calculateDistance: the haversine distance, in metres, of two locations
\* given as (latitude, longitude) pairs; on one meridian it is the arc
\* between the latitudes.
calculateDistance(lat1, lon1, lat2, lon2) ==
  Abs(lat2 - lat1) + Abs(lon2 - lon1)

\* distance.toFixed(2) read back by parseFloat: kilometres rounded to two
\* decimals, counted in hundredths of a kilometre.
toFixed2(d) == (d + 5) \div 10

\* The query parameter maxDistance, in kilometres, against a distance in
\* metres.
within(d, km) == d <= km * 1000

\* Array.prototype.sort with the comparator parseFloat(a.distance) -
\* parseFloat(b.distance): a stable sort, x goes behind every element that
\* does not compare greater.
\* insertSorted with an unstable comparison: x goes ahead of its equals.
RECURSIVE insertSorted_unstable(_, _)
insertSorted_unstable(x, s) ==
  IF s = << >> THEN << x >>
  ELSE IF s[1].distance - x.distance >= 0 THEN << x >> \o s
  ELSE << s[1] >> \o insertSorted_unstable(x, Tail(s))

RECURSIVE insertSorted(_, _)
insertSorted(x, s) ==
  IF s = << >> THEN << x >>
  ELSE IF s[1].distance - x.distance > 0 THEN << x >> \o s
  ELSE << s[1] >> \o insertSorted(x, Tail(s))

RECURSIVE sortByDistance(_)
sortByDistance(s) ==
  IF s = << >> THEN << >>
  ELSE insertSorted(s[Len(s)], sortByDistance(SubSeq(s, 1, Len(s) - 1)))

\* The answer of a query handler, kept until the next query.
Answer(op, u, args, c, data) ==
  [ op |-> op, user |-> u, args |-> args, code |-> c, data |-> data ]

\* ------------------------------------------------ getNearbyOrders (courier)
\* Order.find({status: READY_FOR_PICKUP, deliveryAgent: null}), in the
\* order of enumeration, each order with its populated vendor.
\* readyOrders without the deliveryAgent: null condition.
readyOrders_assigned ==
  SelectSeq(OrderSeq,
            LAMBDA o : Stored(o) /\ orders[o].status = READY_FOR_PICKUP)

readyOrders ==
  SelectSeq(OrderSeq,
            LAMBDA o : /\ Stored(o)
                       /\ orders[o].status = READY_FOR_PICKUP
                       /\ orders[o].deliveryAgent = Null)

\* The distance the filter computes for an order: agent to vendor.
orderDistance(u, o) ==
  calculateDistance(users[u].location[2], users[u].location[1],
                    users[orders[o].vendor].location[2],
                    users[orders[o].vendor].location[1])

nearbyOrders(u, maxDistance) ==
  LET kept == SelectSeq(readyOrders,
                LAMBDA o : /\ users[orders[o].vendor].location # NoPoint
                           /\ within(orderDistance(u, o), maxDistance))
  IN  sortByDistance([ i \in 1 .. Len(kept) |->
        [ order |-> kept[i], distance |-> toFixed2(orderDistance(u, kept[i])) ] ])

getNearbyOrders_find(u) ==
  IF authorize(u, "delivery") # NoResp THEN authorize(u, "delivery")
  ELSE IF users[u].location = NoPoint
    THEN Resp(400, "Agent location not available")
  ELSE NoResp

getNearbyOrders(u, maxDistance) ==
  /\ res' = IF getNearbyOrders_find(u) # NoResp
              THEN Answer("getNearbyOrders", u, << maxDistance >>,
                          getNearbyOrders_find(u).code, << >>)
              ELSE Answer("getNearbyOrders", u, << maxDistance >>, 200,
                          nearbyOrders(u, maxDistance))
  /\ UNCHANGED << orders, req, published, users, rejections, cache, now, sockets >>

\* ----------------------------------------------- getNearbyStores (customer)
\* The customer's coordinates: the query's lat and lng, else the cached
\* location, else the stored one.
customerCoords(u, q) ==
  IF q # NoPoint THEN q
  ELSE IF cache[Key("customer_location", u)] # Absent
    THEN cache[Key("customer_location", u)].value.coordinates
  ELSE users[u].location

\* User.find({role: vendor, status: active [, pinCode]}), in the order of
\* enumeration.
activeVendors(pinCode) ==
  SelectSeq(VendorSeq,
            LAMBDA v : /\ users[v].status = "active"
                       /\ pinCode # Null => users[v].pinCode = pinCode)

storeDistance(coords, v) ==
  calculateDistance(coords[2], coords[1],
                    users[v].location[2], users[v].location[1])

\* vendorDeliveryRadius with a default of 10 km.
vendorDeliveryRadius_ten(v) ==
  IF users[v].deliveryRadiusKm # 0 THEN users[v].deliveryRadiusKm ELSE 10

vendorDeliveryRadius(v) ==
  IF users[v].deliveryRadiusKm # 0 THEN users[v].deliveryRadiusKm ELSE 5

nearbyStores(coords, maxDistance, pinCode) ==
  LET kept == SelectSeq(activeVendors(pinCode),
                LAMBDA v : /\ users[v].location # NoPoint
                           /\ users[v].location[1] # 0
                           /\ users[v].location[2] # 0
                           /\ within(storeDistance(coords, v), maxDistance))
  IN  sortByDistance([ i \in 1 .. Len(kept) |->
        [ vendor |-> kept[i],
          distance |-> toFixed2(storeDistance(coords, kept[i])),
          isDeliveryAvailable |->
            within(storeDistance(coords, kept[i]), vendorDeliveryRadius(kept[i])) ] ])

getNearbyStores_find(u, q) ==
  IF authorize(u, "customer") # NoResp THEN authorize(u, "customer")
  ELSE IF customerCoords(u, q) = NoPoint
    THEN Resp(400, "Customer location not available")
  ELSE NoResp

getNearbyStores(u, q, maxDistance, pinCode) ==
  /\ res' = IF getNearbyStores_find(u, q) # NoResp
              THEN Answer("getNearbyStores", u, << q, maxDistance, pinCode >>,
                          getNearbyStores_find(u, q).code, << >>)
              ELSE Answer("getNearbyStores", u, << q, maxDistance, pinCode >>, 200,
                          nearbyStores(customerCoords(u, q), maxDistance, pinCode))
  /\ UNCHANGED << orders, req, published, users, rejections, cache, now, sockets >>

\* ---------------------------------------------------- the nearby queries
\* Order documents as the lifecycle leaves them: placed with vendor v,
\* marked ready by v, claimed by courier d, picked up by d.
docPending(v) ==
  [ customer |-> "c1", vendor |-> v, status |-> PENDING, deliveryAgent |-> Null,
    statusHistory |-> << Entry(PENDING, "c1", ""), Entry(PENDING, "c1", "") >>,
    deliveryIssues |-> 0 ]

docReady(v) ==
  [ docPending(v) EXCEPT
      !.status = READY_FOR_PICKUP,
      !.statusHistory = @ \o
        << Entry(ACCEPTED, v, "Accepted by vendor"), Entry(ACCEPTED, "c1", ""),
           Entry(READY_FOR_PICKUP, v, "Order is ready for pickup"),
           Entry(READY_FOR_PICKUP, "c1", "") >> ]

docClaimed(v, d) ==
  [ docReady(v) EXCEPT
      !.deliveryAgent = d,
      !.statusHistory = @ \o
        << Entry(READY_FOR_PICKUP, d, "Delivery agent assigned") >> ]

docPickedUp(v, d) ==
  [ docClaimed(v, d) EXCEPT
      !.status = PICKED_UP,
      !.statusHistory = @ \o
        << Entry(PICKED_UP, d, "Order picked up by delivery agent"),
           Entry(PICKED_UP, "c1", "") >> ]

SeqIds == { OrderSeq[i] : i \in DOMAIN OrderSeq }

\* The steps of the clock, in seconds, and the callers of the position
\* handlers.
TickSteps    == { 150 }
TrackCallers == { "c1", "d1" }

\* The callers and the query parameters the model draws.
Callers      == { "c1", "v1", "d1" }
MaxDistances == { 5, 10 }
PinCodes     == { Null, "560001" }
QueryPoints  == { NoPoint, Point(9000) }

\* The stored data the queries run on: three orders of the two vendors in
\* different stages, the vendors' locations (one of them on the equator),
\* radius and status, and the location of a courier.
NearbyInit ==
  /\ orders \in
       { [ o \in SeqIds |-> IF o = "o1" THEN a ELSE IF o = "o2" THEN b ELSE c ] :
           a \in { docPending("v1"), docReady("v1"), docClaimed("v1", "d1") },
           b \in { docReady("v1"), docReady("v2") },
           c \in { docReady("v2"), docPickedUp("v1", "d2") } }
  /\ users \in
       { [ DefaultUsers EXCEPT
             !["v1"] = UserDoc(l1, r1, "560001", "active"),
             !["v2"] = UserDoc(l2, 0, "560002", s2),
             !["d1"] = UserDoc(ld, 0, "", "active") ] :
           l1 \in { Point(0), Point(3000), Point(3004) }, r1 \in { 0, 1 },
           l2 \in { Point(1000), Point(7000) }, s2 \in { "active", "pending" },
           ld \in CourierPoints }
  /\ req = [ p \in Slots |-> IdleReq ]
  /\ published = {}
  /\ rejections = {}
  /\ cache = [ k \in Keys |-> Absent ]
  /\ now = 0
  /\ res = NoRes
  /\ sockets = << >>

NearbyNext ==
  \/ \E u \in Callers, m \in MaxDistances : getNearbyOrders(u, m)
  \/ \E u \in Callers, q \in QueryPoints, m \in MaxDistances, pc \in PinCodes :
        getNearbyStores(u, q, m, pc)

NearbySpec == NearbyInit /\ [][NearbyNext]_vars

\* ------------------------------------------------ the lifecycle operations
\* The handlers that assign order.status or order.deliveryAgent.
Ops ==
  { "cancelOrder", "vendor.acceptOrder", "rejectOrder", "orderReadyForPickup",
    "delivery.acceptOrder", "pickupOrder", "startDelivery", "completeDelivery" }

\* The answer of handler op to user u before it saves: an error, or NoResp.
find(op, u, oid) ==
  CASE op = "cancelOrder"          -> cancelOrder_find(u, oid)
    [] op = "vendor.acceptOrder"   -> vendor_acceptOrder_find(u, oid)
    [] op = "rejectOrder"          -> rejectOrder_find(u, oid)
    [] op = "orderReadyForPickup"  -> orderReadyForPickup_find(u, oid)
    [] op = "delivery.acceptOrder" -> delivery_acceptOrder_find(u, oid)
    [] op = "pickupOrder"          -> pickupOrder_find(u, oid)
    [] op = "startDelivery"        -> startDelivery_find(u, oid)
    [] op = "completeDelivery"     -> completeDelivery_find(u, oid)

\* The value handler op assigns to order.status before it saves a document
\* it loaded in status s.
newStatus(op, s) ==
  CASE op = "cancelOrder"          -> CANCELLED
    [] op = "vendor.acceptOrder"   -> ACCEPTED
    [] op = "rejectOrder"          -> REJECTED
    [] op = "orderReadyForPickup"  -> READY_FOR_PICKUP
    [] op = "pickupOrder"          -> PICKED_UP
    [] op = "startDelivery"        -> IN_TRANSIT
    [] op = "completeDelivery"     -> DELIVERED
    [] OTHER                       -> s

\* A document in any status of ORDER_STATUS, the schema's enum for the status
\* path: placed with vendor v1 and, from PICKED_UP on, held by courier d1.
docIn(s) ==
  [ docPending("v1") EXCEPT
      !.status = s,
      !.deliveryAgent =
        IF s \in { PICKED_UP, IN_TRANSIT, DELIVERED } THEN "d1" ELSE Null,
      !.statusHistory =
        IF s = PENDING THEN @
        ELSE @ \o << Entry(s, "v1", ""), Entry(s, "c1", "") >> ]

StatusInit ==
  /\ orders \in { [ o \in OrderIds |-> docIn(s) ] : s \in ORDER_STATUS }
  /\ req = [ p \in Slots |-> IdleReq ]
  /\ published = {}
  /\ users = DefaultUsers
  /\ rejections = {}
  /\ cache = [ k \in Keys |-> Absent ]
  /\ now = 0
  /\ res = NoRes
  /\ sockets = << >>

StatusNext ==
  \/ \E p \in Slots, u \in Users, oid \in RequestIds : cancelOrder(p, u, oid)
  \/ \E p \in Slots, u \in Users, oid \in RequestIds : vendor_acceptOrder(p, u, oid)
  \/ \E p \in Slots, u \in Users, oid \in RequestIds : rejectOrder(p, u, oid)
  \/ \E p \in Slots, u \in Users, oid \in RequestIds : orderReadyForPickup(p, u, oid)
  \/ \E p \in Slots, u \in Users, oid \in RequestIds : delivery_acceptOrder(p, u, oid)
  \/ \E p \in Slots, u \in Users, oid \in RequestIds : pickupOrder(p, u, oid)
  \/ \E p \in Slots, u \in Users, oid \in RequestIds : startDelivery(p, u, oid)
  \/ \E p \in Slots, u \in Users, oid \in RequestIds : completeDelivery(p, u, oid)

StatusSpec == StatusInit /\ [][StatusNext]_vars

\* -------------------------------------------------------- rejectDeliveryJob
\* The reasons a request body carries; "" stands for a body without one.
Reasons == { "", "too far" }

\* rejectDeliveryJob: wants a reason, then findOne by id, READY_FOR_PICKUP and
\* deliveryAgent null.
rejectDeliveryJob_find(u, oid, reason) ==
  IF authorize(u, "delivery") # NoResp THEN authorize(u, "delivery")
  ELSE IF reason = "" THEN Resp(400, "Rejection reason is required")
  ELSE IF oid = MalformedId THEN handleApiError
  ELSE IF \/ ~Stored(oid)
          \/ orders[oid].status # READY_FOR_PICKUP
          \/ orders[oid].deliveryAgent # Null
    THEN Resp(404, "Order not found or already assigned")
  ELSE NoResp

\* It then creates a DeliveryJobRejection document and answers; the order
\* document it loaded is not saved.
rejectDeliveryJob(p, u, oid, reason) ==
  \/ Begin(p, "rejectDeliveryJob", u, oid, rejectDeliveryJob_find(u, oid, reason))
  \/ /\ Saving(p, "rejectDeliveryJob", u, oid)
     /\ reason # ""
     /\ rejections' = rejections \cup
          { [ order |-> oid, deliveryAgent |-> u, reason |-> reason ] }
     /\ sendSuccess(p, 200, "Delivery job rejected successfully")
     /\ UNCHANGED << orders, published, users, cache, now, res, sockets >>

\* The orders couriers are offered: one order, not placed by anyone or in any
\* stage up to picked up.
DispatchInit ==
  /\ orders \in
       { [ o \in OrderIds |-> d ] :
           d \in { NoOrder, docPending("v1"), docReady("v1"),
                   docClaimed("v1", "d1"), docPickedUp("v1", "d1") } }
  /\ req = [ p \in Slots |-> IdleReq ]
  /\ published = {}
  /\ users = DefaultUsers
  /\ rejections = {}
  /\ cache = [ k \in Keys |-> Absent ]
  /\ now = 0
  /\ res = NoRes
  /\ sockets = << >>

DispatchNext ==
  \/ \E p \in Slots, u \in Users, oid \in RequestIds, reason \in Reasons :
       rejectDeliveryJob(p, u, oid, reason)
  \/ \E p \in Slots, u \in Users, oid \in RequestIds : delivery_acceptOrder(p, u, oid)
  \/ \E p \in Slots, u \in Users, oid \in RequestIds : pickupOrder(p, u, oid)

DispatchSpec == DispatchInit /\ [][DispatchNext]_vars

\* ============================================================== positions
\* One degree of latitude, in metres of arc.
DEG == 111195

\* The expiry of a live position and of a location history, in seconds.
LIVE_TTL    == 300
HISTORY_TTL == 3600

\* A set that leaves the expiry of a key that is there as it was.
set_keepttl(c, key, value, ttl) ==
  [ c EXCEPT ![key] = [ value |-> value,
                        expiresAt |-> IF c[key] # Absent THEN c[key].expiresAt
                                      ELSE now + ttl ] ]

\* redisClient.set(key, value, 'EX', ttl) and redisClient.get(key).
set(c, key, value, ttl) ==
  [ c EXCEPT ![key] = [ value |-> value, expiresAt |-> now + ttl ] ]

get(key) == cache[key]

\* Time passes: the keys whose expiry is reached are gone.  A reply of
\* Redis that a socket awaits arrives before the clock moves.
Tick(d) ==
  /\ now + d <= MaxTime
  /\ \A s \in DOMAIN sockets : sockets[s].pending = {}
  /\ now' = now + d
  /\ cache' = [ k \in Keys |->
                  IF cache[k] # Absent /\ cache[k].expiresAt <= now + d
                    THEN Absent ELSE cache[k] ]
  /\ UNCHANGED << orders, req, published, users, rejections, res, sockets >>

\* The gets of a socket that Redis has not answered yet, for one order.
Awaited(s, orderId) == { r \in sockets[s].pending : r.orderId = orderId }

\* A handler that awaits its set of the order's key before it emits: the
\* replies of Redis come in the order of the commands, so the callbacks of
\* the gets sent before the set have run when the handler emits.
AfterSet(orderId) ==
  orderId # Null => \A s \in DOMAIN sockets : Awaited(s, orderId) = {}

\* ---------------------------------------------- updateLocation (courier)
\* The position a courier's report stores in Redis.
locationData(u, coordinates) ==
  [ agentId |-> u, coordinates |-> coordinates, updatedAt |-> now ]

updateLocation_find(u, coordinates) ==
  IF authorize(u, "delivery") # NoResp THEN authorize(u, "delivery")
  ELSE IF coordinates = NoPoint
    THEN Resp(400, "Valid coordinates are required [longitude, latitude]")
  ELSE IF \/ coordinates[1] < -180 \/ coordinates[1] > 180
          \/ coordinates[2] < -90 * DEG \/ coordinates[2] > 90 * DEG
    THEN Resp(400, "Coordinates out of valid range")
  ELSE NoResp

\* updateLocation: stores the coordinates in the user document and in the
\* courier's key and, when the body names an order, in the order's key, and
\* emits them to the order's room.
updateLocation(u, coordinates, orderId) ==
  /\ AfterSet(orderId)
  /\ IF updateLocation_find(u, coordinates) # NoResp
       THEN UNCHANGED << users, cache, published, sockets >>
       ELSE /\ users' = [ users EXCEPT ![u].location = coordinates ]
            /\ cache' =
                 LET c1 == set(cache, Key("delivery_location", u),
                               locationData(u, coordinates), LIVE_TTL)
                 IN  IF orderId = Null THEN c1
                     ELSE set(c1, Key("order_delivery_location", orderId),
                              locationData(u, coordinates), LIVE_TTL)
            /\ published' =
                 IF orderId = Null THEN published
                 ELSE published \cup
                        { Event(<< "order", orderId >>,
                                "delivery-location-updated", orderId) }
            /\ sockets' =
                 IF orderId = Null THEN sockets
                 ELSE emit(sockets, << "order", orderId >>,
                           "delivery-location-updated",
                           locationData(u, coordinates))
  /\ UNCHANGED << orders, req, rejections, now, res >>

\* ------------------------------------------- batchUpdateLocation (courier)
Sample(coordinates, orderId) ==
  [ coordinates |-> coordinates, orderId |-> orderId ]

\* The first sample of the batch.
latestLocation_first(locations) == locations[1]

\* const latestLocation = locations[locations.length - 1]
latestLocation(locations) == locations[Len(locations)]

batchUpdateLocation_find(u, locations) ==
  IF authorize(u, "delivery") # NoResp THEN authorize(u, "delivery")
  ELSE IF locations = << >>
    THEN Resp(400, "Valid locations array is required")
  ELSE IF latestLocation(locations).coordinates = NoPoint
    THEN Resp(400, "Valid coordinates are required [longitude, latitude]")
  ELSE NoResp

\* The value of the history key: every sample of the batch, in its order.
historyData(u, locations) ==
  [ agentId   |-> u,
    locations |-> [ i \in DOMAIN locations |->
                      [ coordinates |-> locations[i].coordinates ] ],
    updatedAt |-> now ]

\* batchUpdateLocation: the last sample is the current position; all samples
\* go to the history key.  The answer keeps the request it answers.
batchUpdateLocation(u, locations) ==
  /\ locations # << >> => AfterSet(latestLocation(locations).orderId)
  /\ IF batchUpdateLocation_find(u, locations) # NoResp
       THEN /\ res' = Answer("batchUpdateLocation", u, << locations >>,
                             batchUpdateLocation_find(u, locations).code, << >>)
            /\ UNCHANGED << users, cache, published, sockets >>
       ELSE LET coordinates == latestLocation(locations).coordinates
                orderId     == latestLocation(locations).orderId
            IN
            /\ users' = [ users EXCEPT ![u].location = coordinates ]
            /\ cache' =
                 LET c1 == set(cache, Key("delivery_location_history", u),
                               historyData(u, locations), HISTORY_TTL)
                     c2 == set(c1, Key("delivery_location", u),
                               locationData(u, coordinates), LIVE_TTL)
                 IN  IF orderId = Null THEN c2
                     ELSE set(c2, Key("order_delivery_location", orderId),
                              locationData(u, coordinates), LIVE_TTL)
            /\ published' =
                 IF orderId = Null THEN published
                 ELSE published \cup
                        { Event(<< "order", orderId >>,
                                "delivery-location-updated", orderId) }
            /\ sockets' =
                 IF orderId = Null THEN sockets
                 ELSE emit(sockets, << "order", orderId >>,
                           "delivery-location-updated",
                           locationData(u, coordinates))
            /\ res' = Answer("batchUpdateLocation", u, << locations >>, 200, << >>)
  /\ UNCHANGED << orders, req, rejections, now >>

\* ----------------------------------------------------- trackOrder (customer)
NoLocation == [ agentId |-> Null ]     \* agentLocation: null

trackOrder_find(u, oid) ==
  IF authorize(u, "customer") # NoResp THEN authorize(u, "customer")
  ELSE IF oid = MalformedId THEN handleApiError
  ELSE IF ~Stored(oid) \/ orders[oid].customer # u
    THEN Resp(404, "Order not found")
  ELSE NoResp

\* The courier's position as the users collection has it.
agentLocation_stored(oid) ==
  IF orders[oid].deliveryAgent = Null THEN NoLocation
  ELSE [ agentId     |-> orders[oid].deliveryAgent,
         coordinates |-> users[orders[oid].deliveryAgent].location,
         updatedAt   |-> 0 ]

\* The courier's cached position, when the order has a courier and the key
\* is there.
agentLocation(oid) ==
  IF orders[oid].deliveryAgent = Null THEN NoLocation
  ELSE IF get(Key("delivery_location", orders[oid].deliveryAgent)) = Absent
    THEN NoLocation
  ELSE get(Key("delivery_location", orders[oid].deliveryAgent)).value

trackOrder(u, oid) ==
  /\ res' = IF trackOrder_find(u, oid) # NoResp
              THEN Answer("trackOrder", u, << oid >>,
                          trackOrder_find(u, oid).code, NoLocation)
              ELSE Answer("trackOrder", u, << oid >>, 200, agentLocation(oid))
  /\ UNCHANGED << orders, req, published, users, rejections, cache, now, sockets >>

\* ------------------------------------------------- socket: order tracking
\* join-order-tracking: the socket joins the order's room and sends Redis a
\* get of the order's key.  Redis serves its commands in the order they
\* are sent, so the reply holds what the key held when the get was sent.
joinOrderTracking(s, orderId) ==
  /\ sockets[s].open
  /\ Awaited(s, orderId) = {}
  /\ sockets' = [ sockets EXCEPT
         ![s].rooms = @ \cup { << "order", orderId >> },
         ![s].pending = @ \cup
           { [ orderId |-> orderId,
               reply   |-> get(Key("order_delivery_location", orderId)) ] } ]
  /\ UNCHANGED << orders, req, published, users, rejections, cache, now, res >>

\* The callback of that get, in a later turn of the event loop: a location
\* that was there is emitted to the socket alone.
joinOrderTracking_get(s, orderId) ==
  \E r \in Awaited(s, orderId) :
    /\ sockets' =
         [ sockets EXCEPT
             ![s].pending = @ \ { r },
             ![s].received =
               IF r.reply # Absent
                 THEN Received("delivery-location-updated", r.reply.value)
                 ELSE @ ]
    /\ UNCHANGED << orders, req, published, users, rejections, cache, now, res >>

\* update-delivery-location: a socket authenticated as a courier stores the
\* location in the order's key and emits it to the order's room.
socketUpdateLocation(s, orderId, coordinates) ==
  /\ sockets[s].open
  /\ IF \/ sockets[s].user = Null \/ role(sockets[s].user) # "delivery"
        \/ coordinates = NoPoint
       THEN UNCHANGED << cache, published, sockets >>
       ELSE /\ cache' = set(cache, Key("order_delivery_location", orderId),
                            locationData(sockets[s].user, coordinates), LIVE_TTL)
            /\ published' = published \cup
                 { Event(<< "order", orderId >>, "delivery-location-updated", orderId) }
            /\ sockets' = emit(sockets, << "order", orderId >>,
                               "delivery-location-updated",
                               locationData(sockets[s].user, coordinates))
  /\ UNCHANGED << orders, req, users, rejections, now, res >>

\* The reports the model draws: a position, none, one out of range; batches
\* of two samples, the last with or without an order, one without
\* coordinates, and an empty one.
Reports == CourierPoints \cup { NoPoint, << 200, 2000 >> }

Batches ==
  { << >>,
    << Sample(Point(2000), Null), Sample(Point(9000), "o1") >>,
    << Sample(Point(9000), "o1"), Sample(Point(2000), Null) >>,
    << Sample(Point(2000), Null), Sample(NoPoint, Null) >> }

SocketIds == { "s1" }

NoEvent == [ event |-> "none" ]

NoSocket ==
  [ open |-> TRUE, user |-> Null, rooms |-> {}, pending |-> {},
    received |-> NoEvent ]

\* The order is ready, claimed by d1 or picked up by d1; the socket is a
\* fresh connection, or one authenticated as courier d1.
TrackInit ==
  /\ orders \in
       { [ o \in OrderIds |-> d ] :
           d \in { docReady("v1"), docPickedUp("v1", "d1") } }
  /\ req = [ p \in Slots |-> IdleReq ]
  /\ published = {}
  /\ users = DefaultUsers
  /\ rejections = {}
  /\ cache = [ k \in Keys |-> Absent ]
  /\ now = 0
  /\ res = NoRes
  /\ sockets \in { [ s \in SocketIds |-> [ NoSocket EXCEPT !.user = w ] ] :
                     w \in { Null, "d1" } }

TrackNext ==
  \/ \E d \in TickSteps : Tick(d)
  \/ \E u \in TrackCallers, c \in Reports, o \in { Null } \cup OrderIds :
       updateLocation(u, c, o)
  \/ \E u \in TrackCallers, oid \in RequestIds : trackOrder(u, oid)
  \/ \E s \in SocketIds, o \in OrderIds : joinOrderTracking(s, o)
  \/ \E s \in SocketIds, o \in OrderIds : joinOrderTracking_get(s, o)
  \/ \E s \in SocketIds, o \in OrderIds, c \in { Point(9000), NoPoint } :
       socketUpdateLocation(s, o, c)

TrackSpec == TrackInit /\ [][TrackNext]_vars

\* The couriers' reports and the query that uses them: the order is ready
\* or picked up by d1, and a socket may be tracking it.
ReportInit ==
  /\ orders \in
       { [ o \in OrderIds |-> d ] :
           d \in { docReady("v1"), docPickedUp("v1", "d1") } }
  /\ req = [ p \in Slots |-> IdleReq ]
  /\ published = {}
  /\ users = DefaultUsers
  /\ rejections = {}
  /\ cache = [ k \in Keys |-> Absent ]
  /\ now = 0
  /\ res = NoRes
  /\ sockets \in { [ s \in SocketIds |-> [ NoSocket EXCEPT !.rooms = r ] ] :
                     r \in { {}, { << "order", "o1" >> } } }

ReportNext ==
  \/ \E d \in TickSteps : Tick(d)
  \/ \E u \in TrackCallers, c \in Reports, o \in { Null } \cup OrderIds :
       updateLocation(u, c, o)
  \/ \E u \in TrackCallers, b \in Batches : batchUpdateLocation(u, b)
  \/ \E u \in TrackCallers, m \in MaxDistances : getNearbyOrders(u, m)

ReportSpec == ReportInit /\ [][ReportNext]_vars

\* A customer's connection and the courier's: the order is picked up by d1,
\* s1 is a fresh connection and s2 is authenticated as d1.
JoinInit ==
  /\ orders = [ o \in OrderIds |-> docPickedUp("v1", "d1") ]
  /\ req = [ p \in Slots |-> IdleReq ]
  /\ published = {}
  /\ users = DefaultUsers
  /\ rejections = {}
  /\ cache = [ k \in Keys |-> Absent ]
  /\ now = 0
  /\ res = NoRes
  /\ sockets = [ s \in { "s1", "s2" } |->
                   IF s = "s2" THEN [ NoSocket EXCEPT !.user = "d1" ]
                   ELSE NoSocket ]

JoinNext ==
  \/ \E d \in TickSteps : Tick(d)
  \/ \E c \in CourierPoints, o \in OrderIds : updateLocation("d1", c, o)
  \/ \E o \in OrderIds : joinOrderTracking("s1", o)
  \/ \E o \in OrderIds : joinOrderTracking_get("s1", o)
  \/ \E o \in OrderIds, c \in CourierPoints : socketUpdateLocation("s2", o, c)

JoinSpec == JoinInit /\ [][JoinNext]_vars

\* ============================================================= connections
\* The tokens a client sends: none, one that jwt.verify rejects (bad
\* signature or expired), one that it accepts but that names no user, and
\* the access token of a user.
NoToken == [ kind |-> "none" ]

Token(kind, u) == [ kind |-> kind, userId |-> u ]

Thrown == [ thrown |-> TRUE ]

\* A verification that accepts expired tokens.
verifyAccessToken_expired(token) ==
  IF token.kind \in { "valid", "expired" }
    THEN [ userId |-> token.userId, role |-> role(token.userId) ]
  ELSE IF token.kind = "nouser" THEN [ userId |-> Null, role |-> Null ]
  ELSE Thrown

\* verifyAccessToken: jwt.verify returns the payload or throws.
verifyAccessToken(token) ==
  IF token.kind = "valid"
    THEN [ userId |-> token.userId, role |-> role(token.userId) ]
  ELSE IF token.kind = "nouser" THEN [ userId |-> Null, role |-> Null ]
  ELSE Thrown

\* The role channel a socket joins when it authenticates.
roleChannel(decoded) ==
  IF decoded.role \in { "customer", "delivery", "vendor" }
    THEN { << decoded.role, decoded.userId >> }
    ELSE {}

\* The socket after the authenticate handler has run on it.
onAuthenticate(k, token) ==
  IF token = NoToken THEN k
  ELSE IF verifyAccessToken(token) = Thrown
    THEN [ k EXCEPT !.received = Received("authenticated", FALSE) ]
  ELSE IF verifyAccessToken(token).userId = Null THEN k
  ELSE [ k EXCEPT !.user = verifyAccessToken(token).userId,
                  !.received = Received("authenticated", TRUE),
                  !.rooms = @ \cup roleChannel(verifyAccessToken(token)) ]

\* A closed connection: Socket.IO has taken it out of every room.
Closed == [ NoSocket EXCEPT !.open = FALSE ]

\* io.on('connection')
connect(s) ==
  /\ ~sockets[s].open
  /\ sockets' = [ sockets EXCEPT ![s] = NoSocket ]
  /\ UNCHANGED << orders, req, published, users, rejections, cache, now, res >>

\* socket.on('authenticate')
authenticate(s, token) ==
  /\ sockets[s].open
  /\ sockets' = [ sockets EXCEPT ![s] = onAuthenticate(@, token) ]
  /\ UNCHANGED << orders, req, published, users, rejections, cache, now, res >>

\* socket.on('join-support-chat')
joinSupportChat(s, chatId) ==
  /\ sockets[s].open
  /\ sockets' = [ sockets EXCEPT ![s].rooms = @ \cup { << "chat", chatId >> } ]
  /\ UNCHANGED << orders, req, published, users, rejections, cache, now, res >>

\* socket.on('disconnect')
disconnect(s) ==
  /\ sockets[s].open
  /\ sockets' = [ sockets EXCEPT ![s] = Closed ]
  /\ UNCHANGED << orders, req, published, users, rejections, cache, now, res >>

\* socket.on('delivery-status-update'): a socket authenticated as a courier
\* announces a status to the order's room.
deliveryStatusUpdate(s, orderId, status) ==
  /\ sockets[s].open
  /\ IF sockets[s].user = Null \/ role(sockets[s].user) # "delivery"
       THEN /\ sockets' = [ sockets EXCEPT ![s].received =
                              Received("error", "Unauthorized") ]
            /\ UNCHANGED published
       ELSE IF status = Null
       THEN /\ sockets' = [ sockets EXCEPT ![s].received =
                              Received("error", "Invalid status data") ]
            /\ UNCHANGED published
       ELSE /\ published' = published \cup
                 { Event(<< "order", orderId >>, "delivery-status-changed", orderId) }
            /\ sockets' = emit(sockets, << "order", orderId >>,
                               "delivery-status-changed",
                               [ orderId |-> orderId, status |-> status,
                                 agentId |-> sockets[s].user ])
  /\ UNCHANGED << orders, req, users, rejections, cache, now, res >>

Tokens ==
  { NoToken, Token("invalid", Null), Token("expired", "c1"), Token("nouser", Null),
    Token("valid", "c1"), Token("valid", "d1") }

Connections == { "s1", "s2" }

\* Two clients, one of them connected; the order is picked up by d1.
ChannelInit ==
  /\ orders = [ o \in OrderIds |-> docPickedUp("v1", "d1") ]
  /\ req = [ p \in Slots |-> IdleReq ]
  /\ published = {}
  /\ users = DefaultUsers
  /\ rejections = {}
  /\ cache = [ k \in Keys |-> Absent ]
  /\ now = 0
  /\ res = NoRes
  /\ sockets = [ s \in Connections |-> IF s = "s1" THEN NoSocket ELSE Closed ]

ChannelNext ==
  \/ \E s \in Connections : connect(s)
  \/ \E s \in Connections, t \in Tokens : authenticate(s, t)
  \/ \E s \in Connections, o \in OrderIds : joinOrderTracking(s, o)
  \/ \E s \in Connections, o \in OrderIds : joinOrderTracking_get(s, o)
  \/ \E s \in Connections, k \in { "k1" } : joinSupportChat(s, k)
  \/ \E s \in Connections : disconnect(s)
  \/ \E s \in Connections, o \in OrderIds :
       socketUpdateLocation(s, o, Point(9000))

ChannelSpec == ChannelInit /\ [][ChannelNext]_vars

\* The connections of the order's customer, of its courier and of an
\* administrator, each with the token of its user; the order is picked up
\* by d1.
Clients == [ s1 |-> "c1", s2 |-> "d1", s3 |-> "a1" ]

AnnounceInit ==
  /\ orders = [ o \in OrderIds |-> docPickedUp("v1", "d1") ]
  /\ req = [ p \in Slots |-> IdleReq ]
  /\ published = {}
  /\ users = DefaultUsers
  /\ rejections = {}
  /\ cache = [ k \in Keys |-> Absent ]
  /\ now = 0
  /\ res = NoRes
  /\ sockets = [ s \in DOMAIN Clients |-> NoSocket ]

AnnounceNext ==
  \/ \E s \in DOMAIN Clients : authenticate(s, Token("valid", Clients[s]))
  \/ \E o \in OrderIds : joinOrderTracking("s1", o)
  \/ \E o \in OrderIds : joinOrderTracking_get("s1", o)
  \/ \E s \in { "s1", "s2" }, o \in OrderIds, st \in { PICKED_UP, DELIVERED, Null } :
       deliveryStatusUpdate(s, o, st)
  \/ \E o \in RequestIds : reportDeliveryIssue("r1", "d1", o)

AnnounceSpec == AnnounceInit /\ [][AnnounceNext]_vars

\* ================================================================== faults
\* The store rejects a write (MongoDB or Redis cannot be reached), or the
\* application has no Socket.IO server.

\* updateETA when order.save() throws: the catch answers 500.
updateETA_saveFails(p, u, oid) ==
  /\ Saving(p, "updateETA", u, oid)
  /\ req' = [ req EXCEPT ![p] = IdleReq ]
  /\ res' = Answer("updateETA", u, << oid >>, 500, << >>)
  /\ UNCHANGED << orders, published, users, rejections, cache, now, sockets >>

\* updateETA when req.app.get('socketio') is not set: the order is saved
\* and nothing is emitted.
updateETA_noIo(p, u, oid) ==
  /\ Saving(p, "updateETA", u, oid)
  /\ orders' = [ orders EXCEPT ![oid] =
       save(@, req[p].snap, req[p].snap.status, req[p].snap.deliveryAgent,
            << Entry(req[p].snap.status, u, "Updated ETA") >>) ]
  /\ sendSuccess(p, 200, "Estimated delivery time updated successfully")
  /\ UNCHANGED << published, users, rejections, cache, now, res, sockets >>

\* updateLocation when the awaited redisClient.set rejects: the user
\* document is updated, the catch answers 500 and nothing is emitted.
updateLocation_setFails(u, coordinates, orderId) ==
  /\ updateLocation_find(u, coordinates) = NoResp
  /\ users' = [ users EXCEPT ![u].location = coordinates ]
  /\ res' = Answer("updateLocation", u, << coordinates, orderId >>, 500, << >>)
  /\ UNCHANGED << orders, req, published, rejections, cache, now, sockets >>

\* update-delivery-location when redisClient.set rejects: the handler does
\* not await the set, and has emitted to the room in the same turn.
socketUpdateLocation_setFails(s, orderId, coordinates) ==
  /\ sockets[s].open
  /\ sockets[s].user # Null
  /\ role(sockets[s].user) = "delivery"
  /\ coordinates # NoPoint
  /\ published' = published \cup
       { Event(<< "order", orderId >>, "delivery-location-updated", orderId) }
  /\ sockets' = emit(sockets, << "order", orderId >>,
                     "delivery-location-updated",
                     locationData(sockets[s].user, coordinates))
  /\ UNCHANGED << orders, req, users, rejections, cache, now, res >>

\* A connection in the order's room and the courier's connection; the
\* order is picked up by d1.
FaultInit ==
  /\ orders = [ o \in OrderIds |-> docPickedUp("v1", "d1") ]
  /\ req = [ p \in Slots |-> IdleReq ]
  /\ published = {}
  /\ users = DefaultUsers
  /\ rejections = {}
  /\ cache = [ k \in Keys |-> Absent ]
  /\ now = 0
  /\ res = NoRes
  /\ sockets = [ s \in { "s1", "s2" } |->
                   IF s = "s1"
                     THEN [ NoSocket EXCEPT !.rooms = { << "order", "o1" >> } ]
                     ELSE onAuthenticate(NoSocket, Token("valid", "d1")) ]

FaultNext ==
  \/ \E o \in OrderIds : updateETA("r1", "d1", o)
  \/ \E o \in OrderIds : updateETA_saveFails("r1", "d1", o)
  \/ \E o \in OrderIds : updateETA_noIo("r1", "d1", o)
  \/ \E c \in CourierPoints, o \in OrderIds : updateLocation("d1", c, o)
  \/ \E c \in CourierPoints, o \in OrderIds : updateLocation_setFails("d1", c, o)
  \/ \E c \in CourierPoints, o \in OrderIds : socketUpdateLocation("s2", o, c)
  \/ \E c \in CourierPoints, o \in OrderIds :
       socketUpdateLocation_setFails("s2", o, c)

FaultSpec == FaultInit /\ [][FaultNext]_vars

\* ============================================================ delivery fee
\* createOrder: 40 + 5 per kilometre after the first two, rounded; 40 when
\* a location is missing.  Distances are in metres and fees in thousandths
\* until they are rounded: Math.round(x) is the floor of x + 1/2.
createOrder_deliveryFee(addressCoords, vendorCoords) ==
  IF addressCoords = NoPoint \/ vendorCoords = NoPoint THEN 40
  ELSE LET distance == calculateDistance(addressCoords[2], addressCoords[1],
                                         vendorCoords[2], vendorCoords[1])
           beyond   == IF distance - 2 * 1000 > 0 THEN distance - 2 * 1000 ELSE 0
       IN  (40 * 1000 + beyond * 5 + 500) \div 1000

\* calculateDeliveryFee, which checkout uses: 30 + 10 per kilometre, rounded
\* up (Math.ceil).
calculateDeliveryFee(addressCoords, vendorCoords) ==
  LET distanceInKm == calculateDistance(addressCoords[2], addressCoords[1],
                                        vendorCoords[2], vendorCoords[1])
  IN  (30 * 1000 + distanceInKm * 10 + 999) \div 1000

\* The document both paths create: PENDING, with the address and the fee.
docPriced(u, v, address, deliveryFee) ==
  [ customer |-> u, vendor |-> v, status |-> PENDING, deliveryAgent |-> Null,
    statusHistory |-> << Entry(PENDING, u, ""), Entry(PENDING, u, "") >>,
    deliveryIssues |-> 0,
    deliveryAddress |-> address, deliveryFee |-> deliveryFee ]

\* POST /orders with the cart of vendor v and a delivery address.
createOrder_priced(u, v, address) ==
  /\ IF authorize(u, "customer") # NoResp
       THEN /\ res' = Answer("createOrder", u, << >>, 403, 0)
            /\ UNCHANGED orders
       ELSE \E oid \in OrderIds :
              /\ orders[oid] = NoOrder
              /\ orders' = [ orders EXCEPT ![oid] =
                   docPriced(u, v, address,
                     createOrder_deliveryFee(address, users[v].location)) ]
              /\ res' = Answer("createOrder", u, << v, address >>, 201,
                               orders'[oid].deliveryFee)
  /\ UNCHANGED << req, published, users, rejections, cache, now, sockets >>

\* POST /checkout with the cart of vendor v and a delivery address; every
\* connection is told of the new order.
checkout(u, v, address) ==
  /\ IF authorize(u, "customer") # NoResp
       THEN /\ res' = Answer("checkout", u, << >>, 403, 0)
            /\ UNCHANGED << orders, published >>
       ELSE \E oid \in OrderIds :
              /\ orders[oid] = NoOrder
              /\ orders' = [ orders EXCEPT ![oid] =
                   docPriced(u, v, address,
                     calculateDeliveryFee(address, users[v].location)) ]
              /\ published' = published \cup
                   { Event(<< "everyone" >>, "new-order", oid) }
              /\ res' = Answer("checkout", u, << v, address >>, 201,
                               orders'[oid].deliveryFee)
  /\ UNCHANGED << req, users, rejections, cache, now, sockets >>

\* The delivery addresses of the customers, a hundred metres apart.
Addresses == { Point(100 * k) : k \in 0 .. MaxAddress }

FeeNext ==
  \/ \E u \in { "c1", "v1" }, v \in Vendors, a \in Addresses :
       createOrder_priced(u, v, a)
  \/ \E u \in { "c1", "v1" }, v \in Vendors, a \in Addresses : checkout(u, v, a)

FeeSpec == Init /\ [][FeeNext]_vars

\* =================================================================== claims
\* The state machine of the specification.
Terminal == { REJECTED, DELIVERED, CANCELLED, DELIVERY_FAILED }

Edges ==
  { << PENDING, ACCEPTED >>, << PENDING, REJECTED >>,
    << ACCEPTED, PREPARING >>, << ACCEPTED, READY_FOR_PICKUP >>,
    << READY_FOR_PICKUP, PICKED_UP >>, << PICKED_UP, IN_TRANSIT >>,
    << IN_TRANSIT, DELIVERED >>, << PENDING, CANCELLED >>,
    << ACCEPTED, CANCELLED >>, << READY_FOR_PICKUP, DELIVERY_FAILED >> }

History(oid) == IF Stored(oid) THEN orders[oid].statusHistory ELSE << >>

\* The successful deliveryController.acceptOrder calls on an order: each one
\* appends exactly one "Delivery agent assigned" entry in the save() that
\* precedes its success response.
Accepts(oid) ==
  { i \in DOMAIN History(oid) : History(oid)[i].notes = "Delivery agent assigned" }

\* The slot's handler has persisted its document and answers success.
Saved(p) == req[p].pc = "saving" /\ req'[p].pc = "idle"

\* C1: of two couriers' concurrent acceptOrder calls on an order that is
\* READY_FOR_PICKUP with no deliveryAgent, exactly one succeeds (the other is
\* answered with the error), and deliveryAgent is the courier who succeeded.
C1_OneCourierWins ==
  \A oid \in OrderIds :
    /\ Cardinality(Accepts(oid)) <= 1
    /\ \A i \in Accepts(oid) :
         orders[oid].deliveryAgent = History(oid)[i].updatedBy

\* C2: once an order's deliveryAgent is set to a courier, no later or
\* concurrent acceptOrder call changes it to another courier.
C2_AssignmentNeverOverwritten ==
  [][ \A oid \in OrderIds :
        (Stored(oid) /\ orders[oid].deliveryAgent # Null)
          => orders'[oid].deliveryAgent = orders[oid].deliveryAgent ]_vars

\* C3: no operation changes the status of an order that has reached a
\* terminal status, and every attempt made on such an order is answered
\* with an error.
C3_TerminalIsFinal ==
  [][ \A oid \in OrderIds :
        (Stored(oid) /\ orders[oid].status \in Terminal)
          => /\ orders'[oid].status = orders[oid].status
             /\ \A u \in Users :
                  /\ cancelOrder_find(u, oid) # NoResp
                  /\ vendor_acceptOrder_find(u, oid) # NoResp
                  /\ rejectOrder_find(u, oid) # NoResp
                  /\ orderReadyForPickup_find(u, oid) # NoResp
                  /\ delivery_acceptOrder_find(u, oid) # NoResp
                  /\ pickupOrder_find(u, oid) # NoResp
                  /\ startDelivery_find(u, oid) # NoResp
                  /\ completeDelivery_find(u, oid) # NoResp ]_vars

\* C4: every change of an order's status is one of the edges of the
\* specification's state machine.
C4_OnlySpecEdges ==
  [][ \A oid \in OrderIds :
        (Stored(oid) /\ orders'[oid].status # orders[oid].status)
          => << orders[oid].status, orders'[oid].status >> \in Edges ]_vars

\* C5: an order in PICKED_UP, IN_TRANSIT or DELIVERED has a deliveryAgent,
\* and an order with a deliveryAgent is in READY_FOR_PICKUP, PICKED_UP,
\* IN_TRANSIT or DELIVERED.
C5_AgentIffClaimed ==
  \A oid \in OrderIds :
    Stored(oid) =>
      /\ orders[oid].status \in { PICKED_UP, IN_TRANSIT, DELIVERED }
           => orders[oid].deliveryAgent # Null
      /\ orders[oid].deliveryAgent # Null
           => orders[oid].status \in
                { READY_FOR_PICKUP, PICKED_UP, IN_TRANSIT, DELIVERED }

\* C6: in every order's statusHistory, two consecutive entries with
\* different statuses form an edge of the state machine.
C6_HistoryIsLinearized ==
  \A oid \in OrderIds :
    \A i \in 1 .. (Len(History(oid)) - 1) :
      History(oid)[i].status # History(oid)[i + 1].status
        => << History(oid)[i].status, History(oid)[i + 1].status >> \in Edges

\* C7: statusHistory only grows by appending, every appended entry carries
\* the status the order holds when it is appended, and the last entry's
\* status is the order's status.
C7_HistoryTracksStatus ==
  [][ \A oid \in OrderIds :
        orders'[oid] # NoOrder =>
          LET h  == History(oid)
              h2 == orders'[oid].statusHistory
          IN  /\ Len(h2) >= Len(h)
              /\ SubSeq(h2, 1, Len(h)) = h
              /\ \A i \in (Len(h) + 1) .. Len(h2) :
                   h2[i].status = orders'[oid].status
              /\ h2[Len(h2)].status = orders'[oid].status ]_vars

\* C8: a vendor operation takes effect only for the order's vendor, a
\* pickup, start or delivery only for the courier recorded in deliveryAgent,
\* a cancellation only for the ordering party and only on an order that is
\* PENDING or ACCEPTED; the vendor's accept of a PENDING order goes through
\* and the ordering party's is refused with 403.
C8_OnlyAuthorizedActors ==
  [][ /\ \A p \in Slots :
           (Saved(p) /\ orders'[req[p].oid].status # orders[req[p].oid].status) =>
             LET r == req[p]
                 o == orders[r.oid]
             IN  /\ r.op \in { "vendor.acceptOrder", "rejectOrder",
                               "orderReadyForPickup" }
                      => r.user = o.vendor
                 /\ r.op \in { "pickupOrder", "startDelivery", "completeDelivery" }
                      => r.user = o.deliveryAgent
                 /\ r.op = "cancelOrder"
                      => r.user = o.customer /\ o.status \in { PENDING, ACCEPTED }
      /\ \A oid \in OrderIds :
           (Stored(oid) /\ orders[oid].status = PENDING)
             => /\ vendor_acceptOrder_find(orders[oid].vendor, oid) = NoResp
                /\ vendor_acceptOrder_find(orders[oid].customer, oid).code = 403
    ]_vars

\* C9: a courier whose acceptOrder finds the order already assigned is
\* answered 409, an answer different from the one for an unknown order id
\* and from the one for a malformed id.
C9_AlreadyAssignedIsDistinct ==
  \A oid \in OrderIds, u \in Couriers :
    (Stored(oid) /\ orders[oid].deliveryAgent \notin { Null, u })
      => /\ delivery_acceptOrder_find(u, oid).code = 409
         /\ delivery_acceptOrder_find(u, oid) # delivery_acceptOrder_find(u, UnknownId)
         /\ delivery_acceptOrder_find(u, oid) # delivery_acceptOrder_find(u, MalformedId)

\* C10: every status transition of a stored order comes with a
\* status-changed event published to the order's room.
StatusEvents(oid) ==
  { e \in published :
      /\ e.room = << "order", oid >>
      /\ e.event \in { "order-status-changed", "delivery-status-changed" } }

C10_TransitionPublishes ==
  [][ \A oid \in OrderIds :
        (Stored(oid) /\ orders'[oid].status # orders[oid].status)
          => StatusEvents(oid)' # {} ]_vars

\* ------------------------------------------------------ the nearby queries
Answered(op) == res.op = op /\ res.code = 200

\* The place of x in the enumeration s.
IndexOf(s, x) == CHOOSE i \in DOMAIN s : s[i] = x

\* The distance, in metres, of two coordinate pairs.
Metres(a, b) == calculateDistance(a[2], a[1], b[2], b[1])

ReturnedOrders == { res.data[i].order : i \in DOMAIN res.data }

\* C15: getNearbyOrders returns exactly the orders that are READY_FOR_PICKUP,
\* have no deliveryAgent and whose vendor is within maxDistance of the
\* courier's stored location, each once, and the call changes no order, no
\* user, no rejection and no cache key.
C15_NearbyOrdersExact ==
  [][ (res' # res /\ res'.op = "getNearbyOrders") =>
        /\ UNCHANGED << orders, users, rejections, cache >>
        /\ res'.code = 200 =>
             /\ { res'.data[i].order : i \in DOMAIN res'.data } =
                  { o \in DOMAIN orders :
                      /\ orders[o] # NoOrder
                      /\ orders[o].status = READY_FOR_PICKUP
                      /\ orders[o].deliveryAgent = Null
                      /\ Metres(users[res'.user].location,
                                users[orders[o].vendor].location)
                           <= res'.args[1] * 1000 }
             /\ \A i, j \in DOMAIN res'.data :
                  res'.data[i].order = res'.data[j].order => i = j ]_vars

\* A courier is answered a list that holds an order and leaves out a ready,
\* unassigned order that is too far, and an order that is claimed.
C15_Witness ==
  /\ Answered("getNearbyOrders")
  /\ ReturnedOrders # {}
  /\ \E o \in DOMAIN orders \ ReturnedOrders :
       orders[o].status = READY_FOR_PICKUP /\ orders[o].deliveryAgent = Null
  /\ \E o \in DOMAIN orders \ ReturnedOrders :
       orders[o].status = READY_FOR_PICKUP /\ orders[o].deliveryAgent # Null

\* The candidate an entry of the answer stands for, the enumeration it was
\* taken from and its distance from the caller's position, in metres.
ItemId(item) ==
  IF res.op = "getNearbyOrders" THEN item.order ELSE item.vendor

ItemPlace(item) ==
  IF res.op = "getNearbyOrders" THEN IndexOf(OrderSeq, item.order)
  ELSE IndexOf(VendorSeq, item.vendor)

ItemMetres(item) ==
  IF res.op = "getNearbyOrders"
    THEN Metres(users[res.user].location,
                users[orders[item.order].vendor].location)
    ELSE Metres(customerCoords(res.user, res.args[1]),
                users[item.vendor].location)

NearbyAnswered == Answered("getNearbyOrders") \/ Answered("getNearbyStores")

\* C16: the list getNearbyOrders or getNearbyStores returns is in ascending
\* order of the candidates' computed distances, and candidates with the same
\* distance are in the order of enumeration.
C16_SortedByComputedDistance ==
  NearbyAnswered =>
    \A i, j \in DOMAIN res.data :
      i < j =>
        /\ ItemMetres(res.data[i]) <= ItemMetres(res.data[j])
        /\ ItemMetres(res.data[i]) = ItemMetres(res.data[j])
             => ItemPlace(res.data[i]) < ItemPlace(res.data[j])

\* C16 as amended: the list is in ascending order of the distance each entry
\* carries, the computed distance rounded to two decimals of a kilometre,
\* and entries that carry the same distance are in the order of enumeration.
C16_SortedByCarriedDistance ==
  NearbyAnswered =>
    \A i, j \in DOMAIN res.data :
      i < j =>
        /\ res.data[i].distance = toFixed2(ItemMetres(res.data[i]))
        /\ res.data[i].distance <= res.data[j].distance
        /\ res.data[i].distance = res.data[j].distance
             => ItemPlace(res.data[i]) < ItemPlace(res.data[j])

\* Three orders are returned: two at the same distance in the order of
\* enumeration, ahead of a farther one that is enumerated before them.
C16_Witness ==
  /\ Answered("getNearbyOrders")
  /\ Len(res.data) = 3
  /\ res.data[1].distance = res.data[2].distance
  /\ res.data[2].distance < res.data[3].distance
  /\ res.data[3].order = "o1"

\* C17: getNearbyStores returns every enumerated active vendor that has
\* coordinates with the flag distance <= delivery radius (5 km when the
\* vendor declares none), the vendors beyond the requested maxDistance
\* included.
C17_EveryVendorAnnotated ==
  Answered("getNearbyStores") =>
    \A k \in DOMAIN activeVendors(res.args[3]) :
      (0 \notin { users[activeVendors(res.args[3])[k]].location[1],
                  users[activeVendors(res.args[3])[k]].location[2] }) =>
      \E i \in DOMAIN res.data :
        /\ res.data[i].vendor = activeVendors(res.args[3])[k]
        /\ res.data[i].isDeliveryAvailable =
             ( ItemMetres(res.data[i]) <=
                 1000 * ( IF users[res.data[i].vendor].deliveryRadiusKm = 0
                            THEN 5
                            ELSE users[res.data[i].vendor].deliveryRadiusKm ) )

\* C17 as amended: getNearbyStores returns exactly the active vendors (of the
\* pin code asked for) whose coordinates are both non-zero and who are within
\* the requested maxDistance, each with the flag distance <= delivery radius
\* (5 km when the vendor declares none), the vendors beyond their own
\* delivery radius included.
C17_VendorsInReachAnnotated ==
  Answered("getNearbyStores") =>
    /\ { res.data[i].vendor : i \in DOMAIN res.data } =
         { v \in Vendors :
             /\ users[v].status = "active"
             /\ res.args[3] # Null => users[v].pinCode = res.args[3]
             /\ users[v].location[1] # 0 /\ users[v].location[2] # 0
             /\ Metres(customerCoords(res.user, res.args[1]), users[v].location)
                  <= res.args[2] * 1000 }
    /\ \A i \in DOMAIN res.data :
         res.data[i].isDeliveryAvailable =
           ( ItemMetres(res.data[i]) <=
               1000 * ( IF users[res.data[i].vendor].deliveryRadiusKm = 0
                          THEN 5
                          ELSE users[res.data[i].vendor].deliveryRadiusKm ) )

\* A customer is answered two stores, one of them beyond its own delivery
\* radius and flagged so.
C17_Witness ==
  /\ Answered("getNearbyStores")
  /\ Len(res.data) = 2
  /\ \E i \in DOMAIN res.data : ~res.data[i].isDeliveryAvailable
  /\ \E i \in DOMAIN res.data : res.data[i].isDeliveryAvailable

\* ------------------------------------------------- the lifecycle operations
\* Every save of a lifecycle handler stores the status newStatus names.
HandlersAssignNewStatus ==
  [][ \A p \in Slots :
        (Saved(p) /\ req[p].op \in Ops) =>
          orders'[req[p].oid].status \in
            { orders[req[p].oid].status,
              newStatus(req[p].op, req[p].snap.status) } ]_vars

\* Some lifecycle handler, called by some user on the stored order oid,
\* goes on to save and assigns a status different from the order's.
Leaves(oid) ==
  \E op \in Ops, u \in Users :
    /\ find(op, u, oid) = NoResp
    /\ newStatus(op, orders[oid].status) # orders[oid].status

\* The same with the status t.
CanTake(oid, t) ==
  \E op \in Ops, u \in Users :
    /\ find(op, u, oid) = NoResp
    /\ newStatus(op, orders[oid].status) = t

\* C12: an order in a status of ORDER_STATUS that is not terminal is accepted
\* by a handler that takes it to another status; in READY_FOR_PICKUP without
\* a courier, which the pickup requires, it is accepted by the courier's
\* acceptOrder.
C12_NonTerminalCanLeave ==
  \A oid \in OrderIds :
    (Stored(oid) /\ orders[oid].status \notin Terminal) =>
      \/ Leaves(oid)
      \/ /\ orders[oid].status = READY_FOR_PICKUP
         /\ orders[oid].deliveryAgent = Null
         /\ \E u \in Users : delivery_acceptOrder_find(u, oid) = NoResp

\* C13: an order in ACCEPTED is accepted by a handler that takes it to
\* PREPARING, and an order in READY_FOR_PICKUP by one that takes it to
\* DELIVERY_FAILED.
C13_EdgesCanBeTaken ==
  \A oid \in OrderIds :
    Stored(oid) =>
      /\ orders[oid].status = ACCEPTED => CanTake(oid, PREPARING)
      /\ orders[oid].status = READY_FOR_PICKUP => CanTake(oid, DELIVERY_FAILED)

\* No order is ever in PREPARING or DELIVERY_FAILED.
NeverPreparingNorFailed ==
  \A oid \in OrderIds :
    Stored(oid) => orders[oid].status \notin { PREPARING, DELIVERY_FAILED }

\* -------------------------------------------------------- rejectDeliveryJob
Rejected(oid, d) ==
  \E r \in rejections : r.order = oid /\ r.deliveryAgent = d

\* C14: a step that records a courier's rejection leaves every order as it
\* is, and an order that is READY_FOR_PICKUP without a courier is accepted
\* for every courier's acceptOrder, whoever rejected it before.
C14_RejectLeavesOrderOpen ==
  [][ /\ rejections' # rejections => orders' = orders
      /\ \A oid \in OrderIds, d \in Couriers :
           ( /\ orders'[oid] # NoOrder
             /\ orders'[oid].status = READY_FOR_PICKUP
             /\ orders'[oid].deliveryAgent = Null )
             => (delivery_acceptOrder_find(d, oid) = NoResp)' ]_vars

\* Courier d1 rejected the order, and after that courier d2's acceptOrder
\* was accepted and has made d2 the order's courier.
C14_Witness ==
  /\ Rejected("o1", "d1")
  /\ orders["o1"].status = PICKED_UP
  /\ orders["o1"].deliveryAgent = "d2"
  /\ Accepts("o1") # {}
\* ------------------------------------------------------------- positions
LiveKey(u)    == Key("delivery_location", u)
OrderKey(oid) == Key("order_delivery_location", oid)
HistoryKey(u) == Key("delivery_location_history", u)

\* C11: getNearbyOrders for a courier who has no live stored position (the
\* courier's key was never written, or its 300 s have passed) fails; it
\* does not answer with a list.
C11_NoLivePositionFails ==
  [][ \A u \in Couriers :
        ( /\ res' # res
          /\ res'.op = "getNearbyOrders"
          /\ res'.user = u
          /\ get(LiveKey(u)) = Absent )
        => res'.code >= 400 ]_vars

\* C20: a batch report that is accepted leaves the last sample in the
\* courier's key and, when the last sample names an order, in the order's
\* key, both expiring after 300 s, and leaves every sample, in the order of
\* the batch, in the history key, which expires after an hour.
C20_BatchKeepsLastAndHistory ==
  [][ ( /\ res' # res
        /\ res'.op = "batchUpdateLocation"
        /\ res'.code = 200 )
      => LET u  == res'.user
             b  == res'.args[1]
             sn == b[Len(b)]
             h  == cache'[HistoryKey(u)]
         IN  /\ cache'[LiveKey(u)] # Absent
             /\ cache'[LiveKey(u)].value.coordinates = sn.coordinates
             /\ cache'[LiveKey(u)].expiresAt = now + 300
             /\ IF sn.orderId # Null
                  THEN /\ cache'[OrderKey(sn.orderId)] # Absent
                       /\ cache'[OrderKey(sn.orderId)].value.coordinates
                            = sn.coordinates
                       /\ cache'[OrderKey(sn.orderId)].expiresAt = now + 300
                  ELSE \A o \in OrderIds : cache'[OrderKey(o)] = cache[OrderKey(o)]
             /\ h # Absent
             /\ Len(h.value.locations) = Len(b)
             /\ \A i \in DOMAIN b :
                  h.value.locations[i].coordinates = b[i].coordinates
             /\ h.expiresAt = now + 3600
             /\ HistoryKey(u) # LiveKey(u) ]_vars

\* The history of a batch of two samples is still there when the position
\* it left in the courier's key has expired.
C20_Witness ==
  /\ now >= 300
  /\ \E u \in Couriers :
       /\ get(LiveKey(u)) = Absent
       /\ get(HistoryKey(u)) # Absent
       /\ Len(get(HistoryKey(u)).value.locations) = 2

\* The keys that hold a live position.
PositionKeys ==
  { LiveKey(d) : d \in Couriers } \cup { OrderKey(o) : o \in OrderIds }

\* The callback of join-order-tracking for order o runs on socket s.
CatchUp(s, o) ==
  /\ Awaited(s, o) # {}
  /\ Awaited(s, o)' = {}

\* What Redis replied to the get of the join.
Reply(s, o) == (CHOOSE r \in Awaited(s, o) : TRUE).reply

\* trackOrder answers the owner of a stored order.
Tracked ==
  /\ res' # res
  /\ res'.op = "trackOrder"
  /\ res'.code = 200

\* C18: a position written with its 300 s expiry is in the cache from the
\* write on and at every moment before the 300 s have passed, unless a
\* later write replaced it, which starts the 300 s anew, and is absent at
\* every moment after; so a position that trackOrder or the catch-up of
\* join-order-tracking serves was written less than 300 s before.
C18_PositionLivesForTtl ==
  [][ /\ \A k \in PositionKeys :
           \* a write is there at once, whole, with a fresh expiry
           /\ (cache'[k] # cache[k] /\ cache'[k] # Absent)
                => /\ cache'[k].value.updatedAt = now'
                   /\ cache'[k].expiresAt = now' + 300
           \* before the expiry the position stays, or is replaced
           /\ (cache[k] # Absent /\ now' < cache[k].expiresAt)
                => cache'[k] # Absent
           \* after the expiry it is absent
           /\ (cache[k] # Absent /\ now' >= cache[k].expiresAt)
                => cache'[k] = Absent
           /\ cache'[k] # Absent
                => /\ cache'[k].expiresAt = cache'[k].value.updatedAt + 300
                   /\ now' < cache'[k].expiresAt
      /\ (Tracked /\ res'.data # NoLocation)
           => /\ res'.data = get(LiveKey(res'.data.agentId)).value
              /\ now - res'.data.updatedAt < 300
      /\ \A s \in DOMAIN sockets, o \in OrderIds :
           (CatchUp(s, o) /\ Reply(s, o) # Absent)
             => /\ sockets'[s].received.payload = Reply(s, o).value
                /\ now - sockets'[s].received.payload.updatedAt < 300 ]_vars

\* A position written at 150 s over an earlier one was served by trackOrder
\* and by the catch-up, and is gone at 450 s.
C18_Witness ==
  /\ now >= 450
  /\ res.op = "trackOrder"
  /\ res.code = 200
  /\ res.data # NoLocation
  /\ res.data.updatedAt = 150
  /\ get(LiveKey("d1")) = Absent
  /\ \E s \in DOMAIN sockets :
       /\ sockets[s].pending = {}
       /\ sockets[s].received # NoEvent
       /\ sockets[s].received.payload.updatedAt = 150
  /\ get(OrderKey("o1")) = Absent

\* C19: when the key with the position is absent, because it expired or
\* was never written, trackOrder answers the owner of an order that has a
\* courier with 200 and agentLocation null, and the catch-up of
\* join-order-tracking emits nothing to the socket.
C19_AbsentKeyIsNoLiveData ==
  [][ /\ \A u \in Customers, oid \in OrderIds :
           ( /\ res' # res
             /\ res'.op = "trackOrder"
             /\ res'.user = u
             /\ res'.args = << oid >>
             /\ Stored(oid)
             /\ orders[oid].customer = u
             /\ orders[oid].deliveryAgent # Null
             /\ get(LiveKey(orders[oid].deliveryAgent)) = Absent )
           => /\ res'.code = 200
              /\ res'.data = NoLocation
      /\ \A s \in DOMAIN sockets, o \in OrderIds :
           (CatchUp(s, o) /\ Reply(s, o) = Absent)
             => sockets'[s].received = sockets[s].received ]_vars

\* Courier d1 reported a position, the 300 s have passed, and after that
\* trackOrder answered without a position and a socket that joined the
\* order's room received nothing.
C19_Witness ==
  /\ now >= 300
  /\ users["d1"].location = Point(9000)
  /\ orders["o1"].deliveryAgent = "d1"
  /\ get(LiveKey("d1")) = Absent
  /\ get(OrderKey("o1")) = Absent
  /\ res.op = "trackOrder"
  /\ res.code = 200
  /\ res.data = NoLocation
  /\ \E s \in DOMAIN sockets :
       /\ << "order", "o1" >> \in sockets[s].rooms
       /\ sockets[s].pending = {}
       /\ sockets[s].received = NoEvent

\* ---------------------------------------------------- history and events
\* C26: the creation of an order and every change of its status append
\* exactly one statusHistory entry: the entry the controller writes and the
\* entry of the pre-save hook never both record the same change.
C26_OneEntryPerChange ==
  [][ \A oid \in OrderIds :
        ( /\ orders'[oid] # NoOrder
          /\ orders'[oid].status # orders[oid].status )
        => Len(orders'[oid].statusHistory) = Len(History(oid)) + 1 ]_vars

\* ----------------------------------------------------------- delivery fee
\* 40 + 5 * max(0, d - 2), d in kilometres, rounded half up, for a distance
\* of m metres.
FeeOfDistance(m) ==
  40 + (IF m > 2000 THEN (5 * (m - 2000) + 500) \div 1000 ELSE 0)

HasCurrent(s, o) ==
  /\ sockets[s].received.event = "delivery-location-updated"
  /\ get(OrderKey(o)) # Absent
  /\ sockets[s].received.payload = get(OrderKey(o)).value

\* C30: the position the callback of join-order-tracking sends is never
\* delivered to a connection after a live delivery-location-updated event
\* with a newer position of the same order: a connection that holds the
\* position the key holds now is not sent another one by the callback.
C30_CatchUpNeverAfterNewer ==
  [][ \A s \in DOMAIN sockets, o \in OrderIds :
        (CatchUp(s, o) /\ Reply(s, o) # Absent /\ HasCurrent(s, o))
          => sockets'[s].received.payload = get(OrderKey(o)).value ]_vars

\* C21: a connection that joins the tracking of an order whose key is
\* present receives the position of the key before any live update, and a
\* report that names an order writes the key and reaches every connection
\* in the order's room.
C21_CatchUpBeforeLive ==
  [][ /\ \A s \in DOMAIN sockets, o \in OrderIds :
           \* while the reply is awaited no other event reaches the socket
           (Awaited(s, o) # {} /\ Reply(s, o) # Absent /\ ~CatchUp(s, o))
             => sockets'[s].received = sockets[s].received
      /\ \A s \in DOMAIN sockets, o \in OrderIds :
           (CatchUp(s, o) /\ Reply(s, o) # Absent)
             => sockets'[s].received =
                  Received("delivery-location-updated", Reply(s, o).value)
      /\ \A o \in OrderIds :
           (cache'[OrderKey(o)] # cache[OrderKey(o)] /\ cache'[OrderKey(o)] # Absent)
             => \A s \in DOMAIN sockets :
                  << "order", o >> \in sockets[s].rooms
                    => sockets'[s].received =
                         Received("delivery-location-updated",
                                  cache'[OrderKey(o)].value) ]_vars

\* C27: every value written under an order's key and every
\* delivery-location-updated event delivered in the order's room comes from
\* the courier recorded as the order's deliveryAgent.
C27_OnlyAssignedCourierReports ==
  [][ \A o \in OrderIds :
        /\ (cache'[OrderKey(o)] # cache[OrderKey(o)] /\ cache'[OrderKey(o)] # Absent)
             => /\ Stored(o)
                /\ cache'[OrderKey(o)].value.agentId = orders[o].deliveryAgent
        /\ \A s \in DOMAIN sockets :
             ( /\ << "order", o >> \in sockets[s].rooms
               /\ sockets'[s].received # sockets[s].received
               /\ sockets'[s].received.event = "delivery-location-updated" )
             => /\ Stored(o)
                /\ sockets'[s].received.payload.agentId = orders[o].deliveryAgent ]_vars

\* ------------------------------------------------------------ connections
\* The tokens of the claim: missing, invalid, expired.
BadTokens == { NoToken, Token("invalid", Null), Token("expired", "c1") }

RoleChannels(k) == { r \in k.rooms : r[1] \in { "customer", "delivery", "vendor" } }

\* C22: an authenticate with a missing, invalid or expired token leaves the
\* connection open and unauthenticated, with no user and no role channel,
\* and an authenticate with a valid token on the same connection then
\* succeeds: the connection has the token's user and the user's channel.
C22_FailedAuthenticateCanRetry ==
  [][ \A s \in DOMAIN sockets :
        (sockets[s].open /\ sockets[s].user = Null)
        => /\ RoleChannels(sockets[s]) = {}
           /\ \A t \in BadTokens :
                /\ onAuthenticate(sockets[s], t).open
                /\ onAuthenticate(sockets[s], t).user = Null
                /\ onAuthenticate(sockets[s], t).rooms = sockets[s].rooms
                /\ \A u \in { "c1", "d1" } :
                     LET k == onAuthenticate(onAuthenticate(sockets[s], t),
                                             Token("valid", u))
                     IN  /\ k.open
                         /\ k.user = u
                         /\ k.received = Received("authenticated", TRUE)
                         /\ << role(u), u >> \in k.rooms
           /\ ( /\ sockets'[s].received # sockets[s].received
                /\ sockets'[s].received = Received("authenticated", FALSE) )
                => /\ sockets'[s].open
                   /\ sockets'[s].user = Null
                   /\ sockets'[s].rooms = sockets[s].rooms ]_vars

\* A connection that was refused is open, has no user, and is in the room
\* it joined before.
C22_Witness ==
  \E s \in DOMAIN sockets :
    /\ sockets[s].open
    /\ sockets[s].user = Null
    /\ sockets[s].received = Received("authenticated", FALSE)
    /\ sockets[s].rooms = { << "chat", "k1" >> }

\* C23: a connection is in a room only while it is authenticated, a
\* connection without user receives no event of a room, and a closed
\* connection is in no room.
C23_MembersAreAuthenticated ==
  \A s \in DOMAIN sockets :
    /\ sockets[s].rooms # {} => (sockets[s].open /\ sockets[s].user # Null)
    /\ sockets[s].received.event = "delivery-location-updated"
         => sockets[s].user # Null
    /\ ~sockets[s].open => sockets[s].rooms = {}

\* ------------------------------------------------------------ announcements
\* C28: the status a delivery-status-changed event announces to the
\* observers of an order is the status the stored order has when the event
\* is emitted.
C28_AnnouncedStatusIsStored ==
  [][ \A s \in DOMAIN sockets, o \in OrderIds :
        ( /\ << "order", o >> \in sockets[s].rooms
          /\ sockets'[s].received # sockets[s].received
          /\ sockets'[s].received.event = "delivery-status-changed" )
        => /\ Stored(o)
           /\ sockets'[s].received.payload.status = orders[o].status ]_vars

\* C29: when reportDeliveryIssue succeeds, every open connection that is
\* authenticated as the order's customer or as an administrator receives
\* the delivery-issue-reported event.
C29_IssueReachesCustomerAndAdmins ==
  [][ \A p \in Slots, oid \in OrderIds :
        (Saved(p) /\ req[p].op = "reportDeliveryIssue" /\ req[p].oid = oid)
        => \A s \in DOMAIN sockets :
             ( /\ sockets[s].open
               /\ sockets[s].user # Null
               /\ \/ sockets[s].user = orders[oid].customer
                  \/ role(sockets[s].user) = "admin" )
             => sockets'[s].received.event = "delivery-issue-reported" ]_vars

\* ----------------------------------------------------------------- faults
\* C25: an event is emitted only after the write it announces succeeded: a
\* connection receives a delivery-location-updated event of an order only
\* when the order's key holds the position of the event, and a
\* delivery-eta-updated event only when the order was saved in the same
\* step.
C25_EmitOnlyAfterWrite ==
  [][ \A s \in DOMAIN sockets, o \in OrderIds :
        ( /\ << "order", o >> \in sockets[s].rooms
          /\ sockets'[s].received # sockets[s].received
          /\ ~CatchUp(s, o) )
        => /\ sockets'[s].received.event = "delivery-location-updated"
                => /\ cache'[OrderKey(o)] # Absent
                   /\ cache'[OrderKey(o)].value = sockets'[s].received.payload
           /\ sockets'[s].received.event = "delivery-eta-updated"
                => orders'[o].statusHistory # orders[o].statusHistory ]_vars

====
